---- MODULE Spec2Model ----
(***************************************************************************)
(* Repository token-budget estimator: utils/token_count.py,                *)
(* utils/estimate_repo_tokens.py and the estimate-repo subcommand of       *)
(* main.py.                                                                *)
(*                                                                         *)
(* Python values are represented as follows.                               *)
(*   str            a sequence of Unicode code points (file contents) or a *)
(*                  TLA+ string (paths, option values)                     *)
(*   Optional[str]  contents: a record [isNone, chars]; options: the       *)
(*                  string None                                            *)
(*   dict           a function from key strings to values                  *)
(*   int            an integer                                             *)
(*   float          a binary64 value [m, e] standing for m * 2^e, m a      *)
(*                  natural below 2^53 held as a sequence of limbs         *)
(***************************************************************************)
EXTENDS Integers, Sequences, FiniteSets, TLC

VARIABLES
    pc,            \* position of the run
    entry,         \* "main": started from main(); "api": run_estimate_cli called directly
    args,          \* the argparse namespace handed to run_estimate_cli
    adapterCalls,  \* the calls of file-source adapters so far: which one, and whether it returned
    raised,        \* the exception propagating out of the run, "" when there is none
    files,         \* the mapping returned by _gather_files, as an ordered sequence of items
    payload,       \* the payload of run_estimate_cli, a sequence of at most one dict
    stdout,        \* the JSON documents printed, in order
    warnings,      \* the warning lines printed, in order
    outFile,       \* the documents written to args.out, in order
    writes,        \* the outcomes of the attempts to write args.out, in order
    returned,      \* the value returned by run_estimate_cli, a sequence of at most one int
    exitCode,      \* the process exit status, a sequence of at most one int
    tcText,        \* count_tokens under test: its text argument
    tcModel,       \* count_tokens under test: its model argument
    tcResult,      \* count_tokens under test: the values returned
    ovSum,         \* overhead under test: sum_file_tokens
    ovPercent,     \* overhead under test: overhead_percent
    ovResult       \* overhead under test: the (overhead_tokens, grand_total) pairs computed

vars == <<pc, entry, args, adapterCalls, raised, files, payload, stdout,
          warnings, outFile, writes, returned, exitCode,
          tcText, tcModel, tcResult, ovSum, ovPercent, ovResult>>

cliVars == <<pc, entry, args, adapterCalls, raised, files, payload, stdout,
             warnings, outFile, writes, returned, exitCode>>
tcVars == <<tcText, tcModel, tcResult>>
ovVars == <<ovSum, ovPercent, ovResult>>

-----------------------------------------------------------------------------
(* Bounds of the model *)

MaxLen == 3          \* longest text handed to count_tokens in SpecTokens
MaxFiles == 2        \* most files in a mapping returned by an adapter
MaxCtx == 3          \* largest --max-context-tokens
MaxSum == 100        \* largest sum_file_tokens in SpecOverhead
MaxPercent == 30     \* largest --overhead-percent in SpecOverhead

-----------------------------------------------------------------------------
(* Python values *)

None == "None"

NoneContent == [isNone |-> TRUE, chars |-> <<>>]
Str(s) == [isNone |-> FALSE, chars |-> s]

\* Python truthiness of an Optional[str] option value
Truthy(s) == s # None /\ s # ""

\* Python truthiness of an Optional[str] text
TruthyText(c) == ~c.isNone /\ Len(c.chars) > 0

\* text or ""
OrEmpty(c) == IF TruthyText(c) THEN c ELSE Str(<<>>)

\* number of bytes of one code point in UTF-8
Utf8Width(cp) ==
    IF cp < 128 THEN 1
    ELSE IF cp < 2048 THEN 2
    ELSE IF cp < 65536 THEN 3
    ELSE 4

\* len(s.encode("utf-8"))
RECURSIVE Utf8Len(_)
Utf8Len(s) == IF s = <<>> THEN 0 ELSE Utf8Width(Head(s)) + Utf8Len(Tail(s))

-----------------------------------------------------------------------------
(* binary64 arithmetic on non-negative values, round to nearest even *)

(* A natural number wider than a 32-bit integer is held as a sequence of     *)
(* limbs of LimbBits bits, least significant first.                          *)

MantissaBits == 53
LimbBits == 16
Base == 2^LimbBits

\* number of bits of a natural n below 2^30
BitLen(n) == CHOOSE k \in 0..30 : 2^k > n /\ (k = 0 \/ 2^(k - 1) <= n)

\* number of bits of l
BigBitLen(l) ==
    LET used == {j \in 1..Len(l) : l[j] # 0}
    IN  IF used = {} THEN 0
        ELSE LET top == CHOOSE j \in used : \A k \in used : k <= j
             IN  (top - 1) * LimbBits + BitLen(l[top])

\* bit i of l, bit 0 the least significant
BigBit(l, i) ==
    IF i \div LimbBits + 1 > Len(l) THEN 0
    ELSE (l[i \div LimbBits + 1] \div 2^(i % LimbBits)) % 2

\* l \div 2^k
BigShr(l, k) ==
    LET q == k \div LimbBits
        t == k % LimbBits
    IN  IF Len(l) <= q THEN <<>>
        ELSE [j \in 1..(Len(l) - q) |->
                (l[j + q] \div 2^t)
                  + (IF j + q + 1 <= Len(l)
                     THEN (l[j + q + 1] % 2^t) * 2^(LimbBits - t)
                     ELSE 0)]

\* l % 2^k # 0
BigLowNonZero(l, k) ==
    \E j \in 1..Len(l) :
        \/ j <= k \div LimbBits /\ l[j] # 0
        \/ j = k \div LimbBits + 1 /\ l[j] % 2^(k % LimbBits) # 0

\* l + 1
RECURSIVE BigInc(_)
BigInc(l) ==
    IF Len(l) = 0 THEN <<1>>
    ELSE IF Head(l) + 1 < Base THEN <<Head(l) + 1>> \o Tail(l)
    ELSE <<0>> \o BigInc(Tail(l))

\* l * s + carry, for a natural s below 2^14
RECURSIVE BigMulSmall(_, _, _)
BigMulSmall(l, s, carry) ==
    IF Len(l) = 0 THEN (IF carry = 0 THEN <<>> ELSE <<carry>>)
    ELSE LET d == Head(l) * s + carry
         IN  <<d % Base>> \o BigMulSmall(Tail(l), s, d \div Base)

\* quotient and remainder of l by d, for 0 < d < 2^14
RECURSIVE BigDivSmall(_, _)
BigDivSmall(l, d) ==
    IF Len(l) = 0 THEN [q |-> <<>>, r |-> 0]
    ELSE LET hi == BigDivSmall(Tail(l), d)
             cur == hi.r * Base + Head(l)
         IN  [q |-> <<cur \div d>> \o hi.q, r |-> cur % d]

\* l as an integer, for l below 2^31
RECURSIVE BigToNat(_)
BigToNat(l) == IF Len(l) = 0 THEN 0 ELSE Head(l) + Base * BigToNat(Tail(l))

\* the binary64 value nearest to n * 2^e (+ a positive remainder below 2^e
\* when sticky), ties to even
Round64(n, e, sticky) ==
    LET len == BigBitLen(n)
        drop == len - MantissaBits
    IN  IF drop <= 0 THEN [m |-> n, e |-> e]
        ELSE LET keep == BigShr(n, drop)
                 guard == BigBit(n, drop - 1)
                 rest == sticky \/ BigLowNonZero(n, drop - 1)
                 up == guard = 1 /\ (rest \/ BigBit(keep, 0) = 1)
             IN  [m |-> IF up THEN BigInc(keep) ELSE keep, e |-> e + drop]

\* a / b for binary64 a, b holding naturals, a < 2^16 and 0 < b < 2^10:
\* the quotient is taken to DivLimbs limbs below the binary point
DivLimbs == 4
FloatDiv(a, b) ==
    LET d == BigDivSmall([j \in 1..(DivLimbs + 1) |-> IF j = DivLimbs + 1 THEN a ELSE 0], b)
    IN  Round64(d.q, 0 - DivLimbs * LimbBits, d.r # 0)

\* n * x for a natural n below 2^14 and a binary64 x
FloatMulNat(n, x) == Round64(BigMulSmall(x.m, n, 0), x.e, FALSE)

\* int(x) for a binary64 0 <= x < 2^31
IntOfFloat(x) ==
    IF x.e >= 0 THEN BigToNat(x.m) * 2^x.e ELSE BigToNat(BigShr(x.m, 0 - x.e))

\* math.ceil(n / 4) for a natural n: n / 4 is exact in binary64
CeilDiv4(n) == (n + 3) \div 4

-----------------------------------------------------------------------------
(* utils/token_count.py *)

_heuristic_token_count(text) ==
    IF ~TruthyText(text) THEN 0
    ELSE LET approx_tokens == CeilDiv4(Len(text.chars))
         IN  IF approx_tokens > 0 THEN approx_tokens ELSE 0

count_tokens(text, model) == _heuristic_token_count(OrEmpty(text))

-----------------------------------------------------------------------------
(* utils/estimate_repo_tokens.py: estimate_repo_tokens *)

\* LoopBody with the entry put in front of per_file (mutation of LoopBody)
LoopBodyPrepend(acc, item, model) ==
    LET tokens == count_tokens(item.content, model)
        size_bytes == IF ~item.content.isNone THEN Utf8Len(item.content.chars) ELSE 0
    IN  [per_file |-> <<[path |-> item.path, size_bytes |-> size_bytes, tokens |-> tokens]>>
                        \o acc.per_file,
         sum_file_tokens |-> acc.sum_file_tokens + tokens]

\* LoopBody with sum_file_tokens = tokens for += (mutation of LoopBody)
LoopBodyAssign(acc, item, model) ==
    LET tokens == count_tokens(item.content, model)
        size_bytes == IF ~item.content.isNone THEN Utf8Len(item.content.chars) ELSE 0
    IN  [per_file |-> Append(acc.per_file,
                             [path |-> item.path, size_bytes |-> size_bytes, tokens |-> tokens]),
         sum_file_tokens |-> tokens]

\* one pass of the loop over files.items(); acc holds per_file and sum_file_tokens
LoopBody(acc, item, model) ==
    LET tokens == count_tokens(item.content, model)
        size_bytes == IF ~item.content.isNone THEN Utf8Len(item.content.chars) ELSE 0
    IN  [per_file |-> Append(acc.per_file,
                             [path |-> item.path, size_bytes |-> size_bytes, tokens |-> tokens]),
         sum_file_tokens |-> acc.sum_file_tokens + tokens]

\* the loop over files.items(), in the order of the mapping
RECURSIVE Loop(_, _, _)
Loop(acc, items, model) ==
    IF Len(items) = 0 THEN acc
    ELSE Loop(LoopBody(acc, Head(items), model), Tail(items), model)

\* int(sum_file_tokens * (overhead_percent / 100.0))
OverheadTokens(sum_file_tokens, overhead_percent) ==
    IntOfFloat(FloatMulNat(sum_file_tokens, FloatDiv(overhead_percent, 100)))

\* the dict returned by estimate_repo_tokens once _gather_files has returned fileMap
EstimateResult(fileMap, model, overhead_percent) ==
    LET done == Loop([per_file |-> <<>>, sum_file_tokens |-> 0], fileMap, model)
        overhead_tokens == OverheadTokens(done.sum_file_tokens, overhead_percent)
        grand_total == done.sum_file_tokens + overhead_tokens
    IN  [k \in {"model", "max_context_tokens", "overhead_percent", "sum_file_tokens",
                "overhead_tokens", "total_tokens", "files"} |->
            CASE k = "model" -> model
              [] k = "max_context_tokens" -> None
              [] k = "overhead_percent" -> overhead_percent
              [] k = "sum_file_tokens" -> done.sum_file_tokens
              [] k = "overhead_tokens" -> overhead_tokens
              [] k = "total_tokens" -> grand_total
              [] k = "files" -> done.per_file]

-----------------------------------------------------------------------------
(* utils/estimate_repo_tokens.py: run_estimate_cli *)

\* WithinLimit with < for <= (mutation of WithinLimit)
WithinLimitStrict(total_tokens, max_context_tokens) == total_tokens < max_context_tokens

\* result["total_tokens"] <= args.max_context_tokens
WithinLimit(total_tokens, max_context_tokens) == total_tokens <= max_context_tokens

\* {**d, key: value}, also d[key] = value
DictSet(d, key, value) ==
    [k \in DOMAIN d \cup {key} |-> IF k = key THEN value ELSE d[k]]

\* {k: v for k, v in d.items() if k != key}
DictWithout(d, key) == [k \in DOMAIN d \ {key} |-> d[k]]

\* payload of run_estimate_cli: the result with max_context_tokens filled in
\* and within_limit added
Payload(result, max_context_tokens) ==
    LET filled == DictSet(result, "max_context_tokens", max_context_tokens)
    IN  DictSet(filled, "within_limit",
                WithinLimit(filled["total_tokens"], max_context_tokens))

\* Printed without the filter on "files" (mutation of Printed)
PrintedKeepFiles(pl) == DictSet(pl, "file_count", Len(pl["files"]))

\* the document printed to stdout
Printed(pl) == DictSet(DictWithout(pl, "files"), "file_count", Len(pl["files"]))

\* the document written to args.out
Persisted(pl) == pl

\* ExitCodeOf with 1 for 2 (mutation of ExitCodeOf)
ExitCodeOne(within_limit) == IF within_limit THEN 0 ELSE 1

\* return 0 if within_limit else 2
ExitCodeOf(within_limit) == IF within_limit THEN 0 ELSE 2

-----------------------------------------------------------------------------
(* Inputs *)

\* "A", e acute, the euro sign, an emoji: 1, 2, 3 and 4 bytes in UTF-8
CodePoints == {65, 233, 8364, 128512}

Texts(n) == UNION {[1..k -> CodePoints] : k \in 0..n}

\* the texts handed to count_tokens in SpecTokens
TokenInputs == {NoneContent} \cup {Str(t) : t \in Texts(MaxLen)}

Models == {None, "gpt-5"}

\* file contents in Spec: None, "", two non-ASCII characters, "hello"
FileContents ==
    {NoneContent, Str(<<>>), Str(<<233, 8364>>), Str(<<104, 101, 108, 108, 111>>)}

Paths == {"a.py", "b.md", "src/c.py"}

Items == [path : Paths, content : FileContents]

\* the mappings an adapter can return: items with distinct paths, in the
\* adapter's order
FileMaps ==
    UNION {{fm \in [1..k -> Items] :
               \A i, j \in 1..k : i # j => fm[i].path # fm[j].path} : k \in 0..MaxFiles}

Percents == {3, 100}

ArgSpace ==
    [dir : {None, "", "repo_dir"},
     repo : {None, "", "https://github.com/o/r"},
     model : {"gpt-5"},
     max_context_tokens : 0..MaxCtx,
     overhead_percent : Percents,
     out : {None, "report.json"}]

\* what a call of a file-source adapter can do: return a mapping or raise
AdapterOutcomes ==
    {[ok |-> TRUE, files |-> fm] : fm \in FileMaps} \cup {[ok |-> FALSE, files |-> <<>>]}

\* what open(args.out, "w") followed by json.dump can do
WriteOutcomes == {"written", "failed"}

-----------------------------------------------------------------------------
(* The estimate-repo run *)

TcIdle == tcText = NoneContent /\ tcModel = None /\ tcResult = <<>>
OvIdle == ovSum = 0 /\ ovPercent = 0 /\ ovResult = <<>>

Init ==
    /\ pc = "start"
    /\ entry \in {"main", "api"}
    /\ args \in ArgSpace
    /\ adapterCalls = <<>>
    /\ raised = ""
    /\ files = <<>>
    /\ payload = <<>>
    /\ stdout = <<>>
    /\ warnings = <<>>
    /\ outFile = <<>>
    /\ writes = <<>>
    /\ returned = <<>>
    /\ exitCode = <<>>
    /\ TcIdle
    /\ OvIdle

\* main(): parse_args with the estimate-repo subcommand.  --repo and --dir
\* form a required mutually exclusive group: argparse ends the process with
\* status 2 unless exactly one of them is on the command line.
MainParse ==
    /\ pc = "start"
    /\ entry = "main"
    /\ IF (args.dir # None) # (args.repo # None)
       THEN pc' = "run" /\ exitCode' = exitCode
       ELSE pc' = "exited" /\ exitCode' = <<2>>
    /\ UNCHANGED <<entry, args, adapterCalls, raised, files, payload, stdout,
                   warnings, outFile, writes, returned, tcVars, ovVars>>

\* run_estimate_cli(args) called by another module, with any namespace
ApiCall ==
    /\ pc = "start"
    /\ entry = "api"
    /\ pc' = "run"
    /\ UNCHANGED <<entry, args, adapterCalls, raised, files, payload, stdout,
                   warnings, outFile, writes, returned, exitCode, tcVars, ovVars>>

\* CallAdapter with the adapter's exception caught and an empty mapping used
\* (mutation of CallAdapter)
CallAdapterSwallow(name) ==
    \E outcome \in AdapterOutcomes :
       /\ adapterCalls' = Append(adapterCalls, [name |-> name, ok |-> outcome.ok])
       /\ files' = outcome.files
       /\ raised' = raised
       /\ pc' = "gathered"

\* the call of one adapter by _gather_files
CallAdapter(name) ==
    \E outcome \in AdapterOutcomes :
       /\ adapterCalls' = Append(adapterCalls, [name |-> name, ok |-> outcome.ok])
       /\ IF outcome.ok
          THEN files' = outcome.files /\ raised' = raised /\ pc' = "gathered"
          ELSE files' = files /\ raised' = "AdapterError" /\ pc' = "raised"

\* _gather_files, called first thing by estimate_repo_tokens
GatherFiles ==
    /\ pc = "run"
    /\ IF Truthy(args.dir) THEN CallAdapter("local")
       ELSE IF Truthy(args.repo) THEN CallAdapter("remote")
       ELSE /\ raised' = "ValueError"
            /\ pc' = "raised"
            /\ UNCHANGED <<adapterCalls, files>>
    /\ UNCHANGED <<entry, args, payload, stdout, warnings, outFile, writes,
                   returned, exitCode, tcVars, ovVars>>

\* the rest of estimate_repo_tokens, then run_estimate_cli up to its print
Report ==
    /\ pc = "gathered"
    /\ LET result == EstimateResult(files, args.model, args.overhead_percent)
           pl == Payload(result, args.max_context_tokens)
       IN  /\ payload' = <<pl>>
           /\ stdout' = Append(stdout, Printed(pl))
    /\ pc' = "printed"
    /\ UNCHANGED <<entry, args, adapterCalls, raised, files, warnings, outFile,
                   writes, returned, exitCode, tcVars, ovVars>>

\* WriteAndReturn without the except clause (mutation of WriteAndReturn)
WriteUncaught ==
    /\ pc = "printed"
    /\ IF Truthy(args.out)
       THEN \E w \in WriteOutcomes :
               /\ writes' = Append(writes, w)
               /\ IF w = "written"
                  THEN /\ outFile' = Append(outFile, Persisted(payload[1]))
                       /\ returned' = <<ExitCodeOf(payload[1]["within_limit"])>>
                       /\ pc' = "returned"
                       /\ raised' = raised
                  ELSE /\ outFile' = outFile
                       /\ returned' = returned
                       /\ pc' = "raised"
                       /\ raised' = "OSError"
       ELSE /\ returned' = <<ExitCodeOf(payload[1]["within_limit"])>>
            /\ pc' = "returned"
            /\ UNCHANGED <<outFile, writes, raised>>
    /\ UNCHANGED <<entry, args, adapterCalls, files, payload, stdout, warnings,
                   exitCode, tcVars, ovVars>>

\* the rest of run_estimate_cli: the optional write, whose failure is caught
\* and printed as a warning, and the return
WriteAndReturn ==
    /\ pc = "printed"
    /\ IF Truthy(args.out)
       THEN \E w \in WriteOutcomes :
               /\ writes' = Append(writes, w)
               /\ IF w = "written"
                  THEN outFile' = Append(outFile, Persisted(payload[1])) /\ warnings' = warnings
                  ELSE outFile' = outFile /\ warnings' = Append(warnings, args.out)
       ELSE UNCHANGED <<outFile, warnings, writes>>
    /\ returned' = <<ExitCodeOf(payload[1]["within_limit"])>>
    /\ pc' = "returned"
    /\ UNCHANGED <<entry, args, adapterCalls, raised, files, payload, stdout,
                   exitCode, tcVars, ovVars>>

\* main(): raise SystemExit(exit_code)
MainExit ==
    /\ pc = "returned"
    /\ entry = "main"
    /\ exitCode' = returned
    /\ pc' = "exited"
    /\ UNCHANGED <<entry, args, adapterCalls, raised, files, payload, stdout,
                   warnings, outFile, writes, returned, tcVars, ovVars>>

\* main() has no handler around run_estimate_cli: an exception ends the
\* process with a traceback and status 1
MainUncaught ==
    /\ pc = "raised"
    /\ entry = "main"
    /\ exitCode' = <<1>>
    /\ pc' = "exited"
    /\ UNCHANGED <<entry, args, adapterCalls, raised, files, payload, stdout,
                   warnings, outFile, writes, returned, tcVars, ovVars>>

Next ==
    \/ MainParse
    \/ ApiCall
    \/ GatherFiles
    \/ Report
    \/ WriteAndReturn
    \/ MainExit
    \/ MainUncaught

Spec == Init /\ [][Next]_vars

-----------------------------------------------------------------------------
(* count_tokens on its own *)

TokInit ==
    /\ tcText \in TokenInputs
    /\ tcModel \in Models
    /\ tcResult = <<>>
    /\ pc = "idle" /\ entry = "api" /\ args = [dir |-> None]
    /\ adapterCalls = <<>> /\ raised = "" /\ files = <<>> /\ payload = <<>>
    /\ stdout = <<>> /\ warnings = <<>> /\ outFile = <<>> /\ writes = <<>>
    /\ returned = <<>>
    /\ exitCode = <<>>
    /\ OvIdle

CountTokens ==
    /\ tcResult = <<>>
    /\ tcResult' = <<count_tokens(tcText, tcModel)>>
    /\ UNCHANGED <<tcText, tcModel, cliVars, ovVars>>

TokNext == CountTokens

SpecTokens == TokInit /\ [][TokNext]_vars

-----------------------------------------------------------------------------
(* the overhead and total of estimate_repo_tokens on their own *)

OvInit ==
    /\ ovSum \in 0..MaxSum
    /\ ovPercent \in 0..MaxPercent
    /\ ovResult = <<>>
    /\ pc = "idle" /\ entry = "api" /\ args = [dir |-> None]
    /\ adapterCalls = <<>> /\ raised = "" /\ files = <<>> /\ payload = <<>>
    /\ stdout = <<>> /\ warnings = <<>> /\ outFile = <<>> /\ writes = <<>>
    /\ returned = <<>>
    /\ exitCode = <<>>
    /\ TcIdle

Aggregate ==
    /\ ovResult = <<>>
    /\ LET overhead_tokens == OverheadTokens(ovSum, ovPercent)
       IN  ovResult' = <<[overhead_tokens |-> overhead_tokens,
                          total_tokens |-> ovSum + overhead_tokens]>>
    /\ UNCHANGED <<ovSum, ovPercent, cliVars, tcVars>>

OvNext == Aggregate

SpecOverhead == OvInit /\ [][OvNext]_vars

-----------------------------------------------------------------------------
(* Properties *)

\* ceil(n / 4), on the integers
CeilQuarter(n) == IF n % 4 = 0 THEN n \div 4 ELSE n \div 4 + 1

\* UTF-8 byte length of an Optional[str] content, 0 for None
ByteLength(c) == IF c.isNone THEN 0 ELSE Utf8Len(c.chars)

\* C1 (as claimed): for every content and model hint, count_tokens returns
\* ceil(B / 4), B the UTF-8 byte length of the content; None and "" give 0.
C1_TokensAreCeilOfBytes ==
    \A i \in 1..Len(tcResult) : tcResult[i] = CeilQuarter(ByteLength(tcText))

\* C2 (as claimed): overhead_tokens is the exact floor of
\* sum_file_tokens * p / 100 and total_tokens is sum_file_tokens + overhead_tokens.
C2_OverheadIsExactFloor ==
    \A i \in 1..Len(ovResult) :
        /\ ovResult[i].overhead_tokens = (ovSum * ovPercent) \div 100
        /\ ovResult[i].total_tokens = ovSum + ovResult[i].overhead_tokens

\* the reports produced so far: printed, then persisted
Reports == stdout \o outFile

\* C3: in every report, within_limit is true iff total_tokens <=
\* max_context_tokens, and max_context_tokens is the caller's ceiling.
C3_WithinLimitIffTotalLeMax ==
    \A i \in 1..Len(Reports) :
        /\ Reports[i]["max_context_tokens"] = args.max_context_tokens
        /\ Reports[i]["within_limit"] =
              (Reports[i]["total_tokens"] <= Reports[i]["max_context_tokens"])

\* a report at the boundary: total_tokens = max_context_tokens > 0, within limit
C3_Witness ==
    /\ Len(stdout) = 1
    /\ stdout[1]["total_tokens"] = args.max_context_tokens
    /\ stdout[1]["total_tokens"] > 0
    /\ stdout[1]["within_limit"]

\* C4: when run_estimate_cli returns, a report was printed and the value is 0
\* exactly when its within_limit is true and 2 exactly when it is false; main
\* ends the process with that value.
C4_ExitCodeFollowsWithinLimit ==
    /\ returned # <<>> =>
          /\ Len(returned) = 1 /\ Len(stdout) = 1
          /\ returned[1] \in {0, 2}
          /\ (returned[1] = 0) = stdout[1]["within_limit"]
          /\ (returned[1] = 2) = ~stdout[1]["within_limit"]
    /\ (entry = "main" /\ pc = "exited" /\ returned # <<>>) => exitCode = returned

\* main has ended an over-limit run with status 2
C4_Witness ==
    /\ entry = "main" /\ pc = "exited"
    /\ returned = <<2>> /\ exitCode = <<2>>
    /\ ~stdout[1]["within_limit"]

SummaryKeys ==
    {"model", "max_context_tokens", "overhead_percent", "sum_file_tokens",
     "overhead_tokens", "total_tokens", "within_limit", "file_count"}

\* C5: when the write to --out fails, the summary has been printed, the
\* failure shows only as one warning, no exception escapes, and the value
\* returned is the one the budget decision alone gives.
C5_WriteFailureKeepsExitCode ==
    (\E i \in 1..Len(writes) : writes[i] = "failed") =>
        /\ raised = ""
        /\ Len(stdout) = 1 /\ DOMAIN stdout[1] = SummaryKeys
        /\ warnings = <<args.out>>
        /\ Len(returned) = 1
        /\ returned[1] = (IF stdout[1]["total_tokens"] <= args.max_context_tokens
                          THEN 0 ELSE 2)

\* a failed write in an over-limit run
C5_Witness ==
    /\ writes = <<"failed">>
    /\ returned = <<2>>
    /\ outFile = <<>>

\* the sources given: a non-empty directory, a non-empty URL
GivenDir == Truthy(args.dir)
GivenRepo == Truthy(args.repo)

\* C6 (as claimed): with neither or both sources given the run is rejected
\* before any adapter is called; an adapter is called only when exactly one
\* source is given, and then exactly that one.
C6_ExactlyOneSourceOrRejected ==
    /\ adapterCalls # <<>> =>
          /\ GivenDir # GivenRepo
          /\ Len(adapterCalls) = 1
          /\ adapterCalls[1].name = (IF GivenDir THEN "local" ELSE "remote")
    /\ (GivenDir = GivenRepo /\ pc \notin {"start", "run"}) =>
          /\ adapterCalls = <<>>
          /\ raised = "ValueError" \/ exitCode = <<2>>

AdapterHasFailed == \E i \in 1..Len(adapterCalls) : ~adapterCalls[i].ok

\* C7: once the adapter has failed no report is emitted (nothing printed,
\* nothing written), run_estimate_cli does not return and the process status
\* is neither 0 nor 2; a report is emitted only after the adapter has returned
\* its mapping.
C7_AdapterFailureAborts ==
    /\ AdapterHasFailed =>
          /\ stdout = <<>> /\ outFile = <<>> /\ writes = <<>>
          /\ returned = <<>>
          /\ \A i \in 1..Len(exitCode) : exitCode[i] \notin {0, 2}
    /\ (stdout # <<>> \/ outFile # <<>>) =>
          /\ Len(adapterCalls) = 1 /\ adapterCalls[1].ok
          /\ stdout[1]["file_count"] = Len(files)

\* the adapter failed and main ended the process with status 1
C7_Witness ==
    /\ AdapterHasFailed
    /\ entry = "main" /\ pc = "exited" /\ exitCode = <<1>>

\* C8: files of the report has one entry per path of the adapter's mapping,
\* in the mapping's order, each with that path, tokens >= 0 and size_bytes the
\* UTF-8 byte length of the content; the printed file_count is its length.
C8_FilesMirrorAdapterMap ==
    payload # <<>> =>
        LET fs == payload[1]["files"]
        IN  /\ Len(fs) = Len(files)
            /\ \A i \in 1..Len(fs) :
                  /\ fs[i].path = files[i].path
                  /\ fs[i].tokens >= 0
                  /\ fs[i].size_bytes = ByteLength(files[i].content)
            /\ stdout[1]["file_count"] = Len(fs)
            /\ \A i \in 1..Len(outFile) : outFile[i]["files"] = fs

\* a persisted report of two files in an order that is not sorted, the first
\* with multi-byte content
C8_Witness ==
    /\ Len(outFile) = 1
    /\ Len(files) = 2
    /\ files[1].path = "b.md" /\ files[2].path = "a.py"
    /\ files[1].content = Str(<<233, 8364>>)
    /\ outFile[1]["files"][1].size_bytes = 5

\* C9 (as claimed): the printed document has the summary fields and no files;
\* a persisted document has every field of the printed one, file_count
\* included, with the same values, and the files list.
C9_PersistedHasEveryPrintedField ==
    /\ \A i \in 1..Len(stdout) : DOMAIN stdout[i] = SummaryKeys
    /\ \A i \in 1..Len(outFile) :
          /\ "files" \in DOMAIN outFile[i]
          /\ \A k \in DOMAIN stdout[1] :
                k \in DOMAIN outFile[i] /\ outFile[i][k] = stdout[1][k]

\* C9 (amended): the printed document has the summary fields and no files; a
\* persisted document has every field of the printed one except file_count,
\* with the same values, and the files list, whose length is the printed
\* file_count.
C9_PersistedHasPrintedFieldsButFileCount ==
    /\ \A i \in 1..Len(stdout) : DOMAIN stdout[i] = SummaryKeys
    /\ \A i \in 1..Len(outFile) :
          /\ DOMAIN outFile[i] = (SummaryKeys \ {"file_count"}) \cup {"files"}
          /\ \A k \in SummaryKeys \ {"file_count"} : outFile[i][k] = stdout[1][k]
          /\ Len(outFile[i]["files"]) = stdout[1]["file_count"]

\* a persisted report of two files
C9_Witness ==
    /\ Len(outFile) = 1 /\ Len(stdout) = 1
    /\ stdout[1]["file_count"] = 2

\* the orders in which a mapping with the items of fm can yield them
Reorderings(fm) ==
    {[i \in 1..Len(fm) |-> fm[f[i]]] : f \in Permutations(1..Len(fm))}

\* return value of run_estimate_cli for payload pl
ReturnFor(pl) == IF pl["within_limit"] THEN 0 ELSE 2

\* C10: for every other order of the same (path, content) pairs, with the same
\* overhead_percent and max_context_tokens, sum_file_tokens, overhead_tokens,
\* total_tokens, within_limit and the exit code are the same.
C10_AggregationOrderInvariant ==
    payload # <<>> =>
        \A fm \in Reorderings(files) :
            LET other == Payload(EstimateResult(fm, args.model, args.overhead_percent),
                                 args.max_context_tokens)
            IN  /\ \A k \in {"sum_file_tokens", "overhead_tokens", "total_tokens",
                             "within_limit"} : other[k] = payload[1][k]
                /\ \A i \in 1..Len(returned) : returned[i] = ReturnFor(other)

\* a finished run over two files with different token counts
C10_Witness ==
    /\ returned # <<>>
    /\ Len(files) = 2
    /\ payload[1]["files"][1].tokens # payload[1]["files"][2].tokens
    /\ payload[1]["overhead_tokens"] > 0

====
